---- MODULE Spec2Model ----
(***************************************************************************)
(* Order fulfilment and inventory ledger of the EQVIMECH production        *)
(* tracker, as implemented by the Streamlit application                    *)
(* (src/streamlit_app.py) over the SQLAlchemy schema of src/models.py and  *)
(* the seed data of src/database.py.                                       *)
(*                                                                         *)
(* The database tables are the persisted state.  A browser session runs    *)
(* the page script once per interaction: the script first loads rows (the  *)
(* order with its items, or the cached accessory list) and then runs the   *)
(* handler of the pressed button on the rows it loaded.  The two halves    *)
(* are separate steps here, because no transaction or lock spans them.     *)
(*                                                                         *)
(* Modelling choices, all of them restrictions of the data and none of     *)
(* the control flow:                                                       *)
(*  - the seed is cut down to two machine families and two accessories;    *)
(*  - customers and users are left out (a customer is always selected);    *)
(*  - item descriptions are always empty, so a family appears at most      *)
(*    once in the order being configured;                                  *)
(*  - the unit price of a family is carried in its row (the page reads     *)
(*    price_per_unit of the family; None is read as 0.0).                  *)
(***************************************************************************)
EXTENDS Integers, Sequences, FiniteSets, TLC

VARIABLES
    families,       \* machine_families: id -> row
    links,          \* family_accessories: rows in id order
    accessories,    \* accessories: id -> row
    stockHistory,   \* stock_history: accessory id -> rows in insertion order
    orders,         \* orders with their order_items and order_item_accessories
    statusHistory,  \* order_status_history: per order, rows in insertion order
    cart,           \* st.session_state.order_items_config of each session
    page,           \* the rows the running script of each session has loaded
    edits,          \* number of master-data commits so far
    last            \* the message the last handler showed

vars == <<families, links, accessories, stockHistory, orders, statusHistory,
          cart, page, edits, last>>

(***************************************************************************)
(* Bounds                                                                  *)
(***************************************************************************)
MaxFamilies == 3
MaxAccessories == 3
MaxOrders == 1
MaxQty == 2
MaxStatusUpdates == 2
MaxMoves == 2
MaxEdits == 3
MaxCommits == 2

Sessions == {"s1", "s2"}

UTM == "Universal Testing Machine (UTM)"
DocumentsBundle == "Documents Bundle"
FamilyNames == {UTM, DocumentsBundle}
Prices == {2}
Placeholder == "Manual Version/Date: _______"
NotesInputs == {"", "Attached"}
Skus == {"LC-10KN-001", "NEW-001"}
StockLevels == {0, 3}
MinStockLevels == {2}
MoveQuantities == {1, 5}
AdjustQuantities == {-5, 0, 4}

\* selectable_order_statuses
OrderStatuses ==
    <<"Draft", "Pending Approval", "Approved", "In Production",
      "Ready for Dispatch", "Dispatched", "Completed", "Cancelled">>

StatusSet == {OrderStatuses[i] : i \in 1..Len(OrderStatuses)}

\* the targets for which the handler runs the document check
DispatchStatuses == {"Ready for Dispatch", "Dispatched"}

(***************************************************************************)
(* Helpers                                                                 *)
(***************************************************************************)
SetMax(S) == CHOOSE x \in S : \A y \in S : y <= x

\* id given to a new row of a table whose existing ids are `ids`
NextId(ids) == IF ids = {} THEN 1 ELSE SetMax(ids) + 1

RECURSIVE SelectRows(_, _, _)
\* the rows of sequence `rows` whose field values match family f (0: any) and accessory a (0: any)
SelectRows(rows, f, a) ==
    IF rows = <<>> THEN <<>>
    ELSE LET r == Head(rows)
             rest == SelectRows(Tail(rows), f, a)
         IN IF (f = 0 \/ r.machine_family_id = f) /\ (a = 0 \/ r.accessory_id = a)
            THEN <<r>> \o rest ELSE rest

RECURSIVE DropRows(_, _, _)
\* `rows` without the rows of family f (0: any) and accessory a (0: any)
DropRows(rows, f, a) ==
    IF rows = <<>> THEN <<>>
    ELSE LET r == Head(rows)
             rest == DropRows(Tail(rows), f, a)
         IN IF (f = 0 \/ r.machine_family_id = f) /\ (a = 0 \/ r.accessory_id = a)
            THEN rest ELSE <<r>> \o rest

RECURSIVE SumSeq(_)
SumSeq(s) == IF s = <<>> THEN 0 ELSE Head(s) + SumSeq(Tail(s))

NoPage == [kind |-> "none"]

(***************************************************************************)
(* initialize_master_data: the seed rows                                   *)
(***************************************************************************)
SeedFamilies ==
    (1 :> [name |-> UTM, is_product |-> TRUE, price_per_unit |-> 0]) @@
    (2 :> [name |-> DocumentsBundle, is_product |-> FALSE, price_per_unit |-> 0])

SeedAccessories ==
    (1 :> [accessory_id |-> "LC-10KN-001", min_stock_level |-> 2,
           current_stock_level |-> 5]) @@
    (2 :> [accessory_id |-> "DOC-CALIB-001", min_stock_level |-> 0,
           current_stock_level |-> 100])

\* three of the ten seeded production process steps, by order_index
ProductionSteps == << "Design Approval", "Fabrication", "Dispatched" >>

\* the step names a caller may pass: the seeded ones and one that is no step
StepNames == {ProductionSteps[n] : n \in 1..Len(ProductionSteps)} \cup {"Painting"}

SeedLinks ==
    << [machine_family_id |-> 1, accessory_id |-> 1, default_quantity |-> 1,
        is_variable |-> FALSE, is_required_for_dispatch |-> FALSE],
       [machine_family_id |-> 2, accessory_id |-> 2, default_quantity |-> 1,
        is_variable |-> FALSE, is_required_for_dispatch |-> TRUE] >>




\* what a handler reports: the operation, how it ended, the session and order
\* it ran for, the requested status or quantity, and the accessory it names
Msg(op, outcome, s, o, target, qty, acc) ==
    [op |-> op, outcome |-> outcome, s |-> s, o |-> o, target |-> target,
     qty |-> qty, acc |-> acc]

NoMessage == Msg("start", "ok", "", 0, "", 0, 0)

FamilyNamed(name) == {f \in DOMAIN families : families[f].name = name}

\* order items referencing machine family f
ItemsOfFamily(f) ==
    UNION {{<<o, i>> : i \in {j \in 1..Len(orders[o].items) :
                                   orders[o].items[j].machine_family_id = f}} :
           o \in 1..Len(orders)}

(***************************************************************************)
(* Master data page: machine families and their default accessories        *)
(***************************************************************************)
AddMachineFamily(name, is_product, price) ==
    /\ edits < MaxEdits
    /\ IF FamilyNamed(name) # {}
       THEN /\ last' = Msg("add_family", "exists", "", 0, "", 0, 0)
            /\ UNCHANGED <<families, edits>>
       ELSE /\ NextId(DOMAIN families) <= MaxFamilies
            /\ families' = families @@
                  (NextId(DOMAIN families) :>
                     [name |-> name, is_product |-> is_product,
                      price_per_unit |-> price])
            /\ edits' = edits + 1
            /\ last' = Msg("add_family", "ok", "", 0, "", 0, 0)
    /\ UNCHANGED <<links, accessories, stockHistory, orders, statusHistory,
                   cart, page>>

\* db.delete(selected_mf): the default links go with the family (cascade);
\* order_items.machine_family_id is NOT NULL and not cascaded, so the flush
\* fails when an order item still references the family
DeleteMachineFamily(f) ==
    /\ edits < MaxEdits
    /\ f \in DOMAIN families
    /\ IF ItemsOfFamily(f) # {}
       THEN /\ last' = Msg("delete_family", "integrity_error", "", 0, "", 0, 0)
            /\ UNCHANGED <<families, links, edits>>
       ELSE /\ families' = [g \in DOMAIN families \ {f} |-> families[g]]
            /\ links' = DropRows(links, f, 0)
            /\ edits' = edits + 1
            /\ last' = Msg("delete_family", "ok", "", 0, "", 0, 0)
    /\ UNCHANGED <<accessories, stockHistory, orders, statusHistory, cart, page>>

LinkRow(f, a, qty, var, req) ==
    [machine_family_id |-> f, accessory_id |-> a, default_quantity |-> qty,
     is_variable |-> var, is_required_for_dispatch |-> req]

\* "Add/Update Default Accessory" that never looks for an existing link
LinkWithoutLookup(f, a, qty, var, req) ==
    /\ edits < MaxEdits
    /\ f \in DOMAIN families
    /\ a \in DOMAIN accessories
    /\ links' = Append(links, LinkRow(f, a, qty, var, req))
    /\ edits' = edits + 1
    /\ last' = Msg("link", "ok", "", 0, "", 0, a)
    /\ UNCHANGED <<families, accessories, stockHistory, orders, statusHistory,
                   cart, page>>

\* "Add/Update Default Accessory"
LinkDefaultAccessory(f, a, qty, var, req) ==
    /\ edits < MaxEdits
    /\ f \in DOMAIN families
    /\ a \in DOMAIN accessories
    /\ links' =
         IF SelectRows(links, f, a) # <<>>
         THEN [n \in 1..Len(links) |->
                 IF links[n].machine_family_id = f /\ links[n].accessory_id = a
                 THEN LinkRow(f, a, qty, var, req) ELSE links[n]]
         ELSE Append(links, LinkRow(f, a, qty, var, req))
    /\ edits' = edits + 1
    /\ last' = Msg("link", "ok", "", 0, "", 0, a)
    /\ UNCHANGED <<families, accessories, stockHistory, orders, statusHistory,
                   cart, page>>

\* "Remove Selected Accessory"
UnlinkDefaultAccessory(f, a) ==
    /\ edits < MaxEdits
    /\ f \in DOMAIN families
    /\ a \in DOMAIN accessories
    /\ IF SelectRows(links, f, a) # <<>>
       THEN /\ links' = DropRows(links, f, a)
            /\ edits' = edits + 1
            /\ last' = Msg("unlink", "ok", "", 0, "", 0, a)
       ELSE /\ last' = Msg("unlink", "not_linked", "", 0, "", 0, a)
            /\ UNCHANGED <<links, edits>>
    /\ UNCHANGED <<families, accessories, stockHistory, orders, statusHistory,
                   cart, page>>

(***************************************************************************)
(* Create Order page                                                       *)
(***************************************************************************)
CartIndex(c, f) == {n \in 1..Len(c) : c[n].id = f}

\* "Add Product/Family to Current Order": only families with is_product are
\* offered; an entry of the same family and description has its quantity raised
AddProductToOrder(s, f, qty) ==
    /\ f \in DOMAIN families
    /\ families[f].is_product
    /\ IF CartIndex(cart[s], f) # {}
       THEN LET n == CHOOSE n \in CartIndex(cart[s], f) : TRUE
            IN /\ cart[s][n].quantity + qty <= MaxQty
               /\ cart' = [cart EXCEPT ![s][n].quantity = @ + qty]
       ELSE /\ qty <= MaxQty
            /\ cart' = [cart EXCEPT ![s] =
                 Append(@, [id |-> f, quantity |-> qty,
                            unit_price |-> families[f].price_per_unit])]
    /\ last' = Msg("add_product", "ok", s, 0, "", qty, 0)
    /\ UNCHANGED <<families, links, accessories, stockHistory, orders,
                   statusHistory, page, edits>>

\* "Clear All Order Items"
ClearOrderItems(s) ==
    /\ cart[s] # <<>>
    /\ cart' = [cart EXCEPT ![s] = <<>>]
    /\ last' = Msg("clear_items", "ok", s, 0, "", 0, 0)
    /\ UNCHANGED <<families, links, accessories, stockHistory, orders,
                   statusHistory, page, edits>>

\* default accessories copied with their default quantity, whatever q is
MaterializeUnscaled(f, q) ==
    LET defaults == IF f \in DOMAIN families THEN SelectRows(links, f, 0) ELSE <<>>
    IN [n \in 1..Len(defaults) |->
          [accessory_id |-> defaults[n].accessory_id,
           quantity |-> defaults[n].default_quantity,
           is_required_for_dispatch |-> defaults[n].is_required_for_dispatch,
           notes |-> IF defaults[n].is_variable THEN Placeholder ELSE ""]]

\* the order_item_accessories created for a line item of family f, quantity q
MaterializeDefaults(f, q) ==
    LET defaults == IF f \in DOMAIN families THEN SelectRows(links, f, 0) ELSE <<>>
    IN [n \in 1..Len(defaults) |->
          [accessory_id |-> defaults[n].accessory_id,
           quantity |-> defaults[n].default_quantity * q,
           is_required_for_dispatch |-> defaults[n].is_required_for_dispatch,
           notes |-> IF defaults[n].is_variable THEN Placeholder ELSE ""]]

\* a line item whose total_price ignores the quantity
NewOrderItemUnitTotal(entry) ==
    [machine_family_id |-> entry.id,
     quantity |-> entry.quantity,
     unit_price |-> entry.unit_price,
     total_price |-> entry.unit_price,
     accessories |-> MaterializeDefaults(entry.id, entry.quantity),
     production_status |-> <<>>]

NewOrderItem(entry) ==
    [machine_family_id |-> entry.id,
     quantity |-> entry.quantity,
     unit_price |-> entry.unit_price,
     total_price |-> entry.quantity * entry.unit_price,
     accessories |-> MaterializeDefaults(entry.id, entry.quantity),
     production_status |-> <<>>]

NextOrderNumber ==
    IF orders = <<>> THEN 1
    ELSE SetMax({orders[o].order_number : o \in 1..Len(orders)}) + 1

NewOrder(c) ==
    [order_number |-> NextOrderNumber,
     status |-> "Draft",
     total_amount |-> SumSeq([n \in 1..Len(c) |-> c[n].quantity * c[n].unit_price]),
     items |-> [n \in 1..Len(c) |-> NewOrderItem(c[n])]]

\* the status history row written with the new order
InitialHistory == << [status |-> "Draft", from |-> ""] >>

\* "Create Order" whose failure leaves the flushed rows in the database
CreateOrderWithoutRollback(s) ==
    /\ IF cart[s] = <<>>
       THEN /\ last' = Msg("create_order", "no_items", s, 0, "", 0, 0)
            /\ UNCHANGED <<orders, statusHistory, cart>>
       ELSE /\ Len(orders) < MaxOrders
            /\ \/ /\ orders' = Append(orders, NewOrder(cart[s]))
                  /\ statusHistory' = Append(statusHistory, InitialHistory)
                  /\ cart' = [cart EXCEPT ![s] = <<>>]
                  /\ last' = Msg("create_order", "ok", s, Len(orders) + 1, "", 0, 0)
               \/ /\ \E n \in 1..Len(cart[s]) : cart[s][n].id \notin DOMAIN families
                  /\ orders' = Append(orders, NewOrder(cart[s]))
                  /\ statusHistory' = Append(statusHistory, InitialHistory)
                  /\ last' = Msg("create_order", "integrity_error", s, 0, "", 0, 0)
                  /\ UNCHANGED cart
    /\ UNCHANGED <<families, links, accessories, stockHistory, page, edits>>

\* "Create Order".  An entry of the configuration may name a family deleted
\* since it was added: with foreign keys enforced the commit fails and is
\* rolled back, without (SQLite's default) the item is stored as it is.
CreateOrder(s) ==
    /\ IF cart[s] = <<>>
       THEN /\ last' = Msg("create_order", "no_items", s, 0, "", 0, 0)
            /\ UNCHANGED <<orders, statusHistory, cart>>
       ELSE /\ Len(orders) < MaxOrders
            /\ \/ /\ orders' = Append(orders, NewOrder(cart[s]))
                  /\ statusHistory' = Append(statusHistory, InitialHistory)
                  /\ cart' = [cart EXCEPT ![s] = <<>>]
                  /\ last' = Msg("create_order", "ok", s, Len(orders) + 1, "", 0, 0)
               \/ /\ \E n \in 1..Len(cart[s]) : cart[s][n].id \notin DOMAIN families
                  /\ last' = Msg("create_order", "integrity_error", s, 0, "", 0, 0)
                  /\ UNCHANGED <<orders, statusHistory, cart>>
    /\ UNCHANGED <<families, links, accessories, stockHistory, page, edits>>

\* the orders whose order_number is n (order_id_prefix is always "EQV-ORD")
OrdersNumbered(n) == {o \in 1..Len(orders) : orders[o].order_number = n}

\* "Create Order" up to the query for the highest order number: the handler
\* holds new_order_number while other sessions may commit
BeginCreateOrder(s) ==
    /\ cart[s] # <<>>
    /\ page' = [page EXCEPT ![s] = [kind |-> "create", order_number |-> NextOrderNumber]]
    /\ last' = Msg("begin_create_order", "ok", s, 0, "", NextOrderNumber, 0)
    /\ UNCHANGED <<families, links, accessories, stockHistory, orders,
                   statusHistory, cart, edits>>

\* the rest of "Create Order" with the unique constraint _order_number_uc left
\* out: the insert goes through whatever numbers exist
CommitWithoutUniqueNumber(s) ==
    /\ page[s].kind = "create"
    /\ Len(orders) < MaxCommits
    /\ orders' = Append(orders,
                   [NewOrder(cart[s]) EXCEPT !.order_number = page[s].order_number])
    /\ statusHistory' = Append(statusHistory, InitialHistory)
    /\ cart' = [cart EXCEPT ![s] = <<>>]
    /\ last' = Msg("create_order", "ok", s, Len(orders) + 1, "", 0, 0)
    /\ page' = [page EXCEPT ![s] = NoPage]
    /\ UNCHANGED <<families, links, accessories, stockHistory, edits>>

\* the rest of "Create Order": the insert of the order fails on the unique
\* constraint _order_number_uc when the number was taken meanwhile, and the
\* handler rolls back; otherwise the order, its items and its first history
\* row are committed
CommitCreateOrder(s) ==
    /\ page[s].kind = "create"
    /\ IF OrdersNumbered(page[s].order_number) # {}
       THEN /\ last' = Msg("create_order", "integrity_error", s, 0, "",
                           page[s].order_number, 0)
            /\ UNCHANGED <<orders, statusHistory, cart>>
       ELSE /\ Len(orders) < MaxCommits
            /\ orders' = Append(orders,
                  [NewOrder(cart[s]) EXCEPT !.order_number = page[s].order_number])
            /\ statusHistory' = Append(statusHistory, InitialHistory)
            /\ cart' = [cart EXCEPT ![s] = <<>>]
            /\ last' = Msg("create_order", "ok", s, Len(orders) + 1, "", 0, 0)
    /\ page' = [page EXCEPT ![s] = NoPage]
    /\ UNCHANGED <<families, links, accessories, stockHistory, edits>>

(***************************************************************************)
(* View All Orders page                                                    *)
(***************************************************************************)
\* the script loads the selected order with its line items and accessories
ViewOrder(s, o) ==
    /\ o \in 1..Len(orders)
    /\ page' = [page EXCEPT ![s] = [kind |-> "order", o |-> o, order |-> orders[o]]]
    /\ last' = Msg("view_order", "ok", s, o, "", 0, 0)
    /\ UNCHANGED <<families, links, accessories, stockHistory, orders,
                   statusHistory, cart, edits>>

RECURSIVE FirstIncomplete(_)
\* the first accessory of the list that is required for dispatch and whose
\* notes are not "Attached" (0: none)
FirstIncomplete(accs) ==
    IF accs = <<>> THEN 0
    ELSE IF Head(accs).is_required_for_dispatch /\ Head(accs).notes # "Attached"
         THEN Head(accs).accessory_id
         ELSE FirstIncomplete(Tail(accs))

RECURSIVE FirstIncompleteDocument(_, _)
\* the document check of the handler: over the line items of the "Documents
\* Bundle" family (id docs), in order, the first incomplete required accessory
FirstIncompleteDocument(items, docs) ==
    IF items = <<>> THEN 0
    ELSE IF Head(items).machine_family_id = docs
            /\ FirstIncomplete(Head(items).accessories) # 0
         THEN FirstIncomplete(Head(items).accessories)
         ELSE FirstIncompleteDocument(Tail(items), docs)

\* a dispatch check that looks at the accessories of every line item
DispatchBlockerAllItems(loaded, new_status) ==
    IF new_status \in DispatchStatuses
          /\ \E i \in 1..Len(loaded.items) : FirstIncomplete(loaded.items[i].accessories) # 0
    THEN LET i == CHOOSE i \in 1..Len(loaded.items) :
                     FirstIncomplete(loaded.items[i].accessories) # 0
         IN FirstIncomplete(loaded.items[i].accessories)
    ELSE 0

\* the accessory that blocks a change of the loaded order to new_status (0: none)
DispatchBlocker(loaded, new_status) ==
    IF new_status \in DispatchStatuses /\ FamilyNamed(DocumentsBundle) # {}
    THEN FirstIncompleteDocument(loaded.items,
                                 CHOOSE f \in FamilyNamed(DocumentsBundle) : TRUE)
    ELSE 0

\* the status changes committed so far, over all orders
StatusUpdates ==
    SumSeq([o \in 1..Len(statusHistory) |-> Len(statusHistory[o]) - 1])

\* update_overall_order_status that sets the status and logs nothing
UpdateStatusWithoutHistory(s, o, loaded_status, new_status) ==
    IF loaded_status # new_status
    THEN /\ orders' = [orders EXCEPT ![o].status = new_status]
         /\ statusHistory' = statusHistory
         /\ last' = Msg("update_status", "ok", s, o, new_status, 0, 0)
    ELSE /\ last' = Msg("update_status", "same_status", s, o, new_status, 0, 0)
         /\ UNCHANGED <<orders, statusHistory>>

\* update_overall_order_status that logs the change and leaves the status
UpdateHistoryWithoutStatus(s, o, loaded_status, new_status) ==
    IF loaded_status # new_status
    THEN /\ StatusUpdates < MaxStatusUpdates
         /\ orders' = orders
         /\ statusHistory' = [statusHistory EXCEPT ![o] =
               Append(@, [status |-> new_status, from |-> loaded_status])]
         /\ last' = Msg("update_status", "ok", s, o, new_status, 0, 0)
    ELSE /\ last' = Msg("update_status", "same_status", s, o, new_status, 0, 0)
         /\ UNCHANGED <<orders, statusHistory>>

\* update_overall_order_status, on the order row the session has loaded
UpdateOverallOrderStatus(s, o, loaded_status, new_status) ==
    IF loaded_status # new_status
    THEN /\ StatusUpdates < MaxStatusUpdates
         /\ orders' = [orders EXCEPT ![o].status = new_status]
         /\ statusHistory' = [statusHistory EXCEPT ![o] =
               Append(@, [status |-> new_status, from |-> loaded_status])]
         /\ last' = Msg("update_status", "ok", s, o, new_status, 0, 0)
    ELSE /\ last' = Msg("update_status", "same_status", s, o, new_status, 0, 0)
         /\ UNCHANGED <<orders, statusHistory>>

\* the handler of "Update Order ... Status", run on the order row `loaded`
StatusHandler(s, o, loaded, new_status) ==
    LET blocker == DispatchBlocker(loaded, new_status)
    IN IF blocker # 0
       THEN /\ last' = Msg("update_status", "blocked", s, o, new_status, 0, blocker)
            /\ UNCHANGED <<orders, statusHistory>>
       ELSE UpdateOverallOrderStatus(s, o, loaded.status, new_status)

\* "Update Order ... Status", in a script run whose rows were loaded earlier
UpdateOrderStatus(s, new_status) ==
    /\ page[s].kind = "order"
    /\ new_status \in StatusSet
    /\ StatusHandler(s, page[s].o, page[s].order, new_status)
    /\ page' = [page EXCEPT ![s] = NoPage]
    /\ UNCHANGED <<families, links, accessories, stockHistory, cart, edits>>

\* the same script run with no other session in between: the handler runs on
\* the rows as they are in the database
ChangeOrderStatus(s, o, new_status) ==
    /\ o \in 1..Len(orders)
    /\ new_status \in StatusSet
    /\ StatusHandler(s, o, orders[o], new_status)
    /\ UNCHANGED <<families, links, accessories, stockHistory, cart, page, edits>>

\* "Save Accessory Update" that writes the notes on the accessory in the same
\* place of every order
SaveAccessoryUpdateAllOrders(o, i, k, notes) ==
    /\ o \in 1..Len(orders)
    /\ i \in 1..Len(orders[o].items)
    /\ k \in 1..Len(orders[o].items[i].accessories)
    /\ orders' = [p \in 1..Len(orders) |->
                    IF /\ i \in 1..Len(orders[p].items)
                       /\ k \in 1..Len(orders[p].items[i].accessories)
                    THEN [orders[p] EXCEPT !.items[i].accessories[k].notes = notes]
                    ELSE orders[p]]
    /\ last' = Msg("update_accessory", "ok", "", o, "", 0,
                   orders[o].items[i].accessories[k].accessory_id)
    /\ UNCHANGED <<families, links, accessories, stockHistory, statusHistory,
                   cart, page, edits>>

\* "Save Accessory Update": the notes of one order item accessory
SaveAccessoryUpdate(o, i, k, notes) ==
    /\ o \in 1..Len(orders)
    /\ i \in 1..Len(orders[o].items)
    /\ k \in 1..Len(orders[o].items[i].accessories)
    /\ orders' = [orders EXCEPT ![o].items[i].accessories[k].notes = notes]
    /\ last' = Msg("update_accessory", "ok", "", o, "", 0,
                   orders[o].items[i].accessories[k].accessory_id)
    /\ UNCHANGED <<families, links, accessories, stockHistory, statusHistory,
                   cart, page, edits>>

\* the production_status rows of the item for the named step
StepRows(item, step_name) ==
    {n \in 1..Len(item.production_status) :
        item.production_status[n].step = step_name}

\* the status values a caller may pass; the page passes the default "Completed"
ProductionStatuses == {"Completed", "In Progress"}

\* the rows of a line item with row n given the newest timestamp and the
\* status passed: rank orders the rows of the item by timestamp
Restamped(rows, n, status) ==
    [m \in 1..Len(rows) |->
        IF m = n THEN [rows[m] EXCEPT !.status = status, !.rank = Len(rows)]
        ELSE IF rows[m].rank > rows[n].rank
             THEN [rows[m] EXCEPT !.rank = @ - 1]
             ELSE rows[m]]

\* update_order_item_production_status: an unknown step name is reported and
\* nothing is written; the row the item already has for the step is left as
\* it is when it has the status passed, and otherwise gets that status and a
\* new timestamp; with no row for the step one ProductionStatusHistory row is
\* added
UpdateOrderItemProductionStatus(s, o, i, new_step_name, status) ==
    /\ o \in 1..Len(orders)
    /\ i \in 1..Len(orders[o].items)
    /\ IF new_step_name \notin {ProductionSteps[n] : n \in 1..Len(ProductionSteps)}
       THEN /\ last' = Msg("update_production", "unknown_step", s, o, new_step_name, 0, 0)
            /\ UNCHANGED orders
       ELSE IF StepRows(orders[o].items[i], new_step_name) # {}
       THEN LET n == CHOOSE n \in StepRows(orders[o].items[i], new_step_name) : TRUE
            IN IF orders[o].items[i].production_status[n].status # status
               THEN /\ orders' = [orders EXCEPT ![o].items[i].production_status =
                                     Restamped(@, n, status)]
                    /\ last' = Msg("update_production", "updated", s, o,
                                   new_step_name, i, 0)
               ELSE /\ last' = Msg("update_production", "already", s, o,
                                   new_step_name, i, 0)
                    /\ UNCHANGED orders
       ELSE /\ orders' = [orders EXCEPT ![o].items[i].production_status =
                  Append(@, [step |-> new_step_name, status |-> status,
                             rank |-> Len(@) + 1])]
            /\ last' = Msg("update_production", "ok", s, o, new_step_name, i, 0)
    /\ UNCHANGED <<families, links, accessories, stockHistory, statusHistory,
                   cart, page, edits>>

\* "Current Production Status" of a line item: the step of the row with the
\* latest timestamp, "Not Started" without rows
CurrentStep(item) ==
    IF item.production_status = <<>> THEN "Not Started"
    ELSE LET n == CHOOSE n \in 1..Len(item.production_status) :
                     item.production_status[n].rank = Len(item.production_status)
         IN item.production_status[n].step

\* a sequence without its element n
WithoutRow(rows, n) == [m \in 1..(Len(rows) - 1) |-> IF m < n THEN rows[m] ELSE rows[m + 1]]

\* delete_order of the order API: db.session.delete(order); the order's
\* items and status_history are relationships with cascade "all,
\* delete-orphan", their rows are deleted with the order.  Taken while no
\* session holds a loaded order.
DeleteOrder(o) ==
    /\ o \in 1..Len(orders)
    /\ \A s \in Sessions : page[s].kind # "order"
    /\ orders' = WithoutRow(orders, o)
    /\ statusHistory' = WithoutRow(statusHistory, o)
    /\ last' = Msg("delete_order", "ok", "", o, "", 0, 0)
    /\ UNCHANGED <<families, links, accessories, stockHistory, cart, page, edits>>

(***************************************************************************)
(* Master data page: accessories                                           *)
(***************************************************************************)
AccessoryWithSku(sku) == {a \in DOMAIN accessories : accessories[a].accessory_id = sku}

\* "Add Accessory"
AddAccessory(sku, min_stock, current_stock) ==
    /\ edits < MaxEdits
    /\ IF AccessoryWithSku(sku) # {}
       THEN /\ last' = Msg("add_accessory", "exists", "", 0, "", 0, 0)
            /\ UNCHANGED <<accessories, stockHistory, edits>>
       ELSE LET a == NextId(DOMAIN accessories)
            IN /\ a <= MaxAccessories
               /\ accessories' = accessories @@
                     (a :> [accessory_id |-> sku, min_stock_level |-> min_stock,
                            current_stock_level |-> current_stock])
               /\ stockHistory' = stockHistory @@ (a :> <<>>)
               /\ edits' = edits + 1
               /\ last' = Msg("add_accessory", "ok", "", 0, "", 0, a)
    /\ UNCHANGED <<families, links, orders, statusHistory, cart, page>>

\* the order with the order_item_accessories of accessory a removed
WithoutAccessory(order, a) ==
    [order EXCEPT !.items =
        [i \in 1..Len(order.items) |->
            [order.items[i] EXCEPT !.accessories = DropRows(@, 0, a)]]]

\* "Confirm Delete" of an accessory: db.delete(selected_acc).  family_links and
\* order_item_links are cascade="all, delete-orphan", so the default links and
\* the order item accessories of the accessory are deleted with it;
\* stock_history has no cascade, its rows would get accessory_id NULL, which
\* the NOT NULL column refuses, so the flush fails when movements exist
DeleteAccessory(a) ==
    /\ edits < MaxEdits
    /\ a \in DOMAIN accessories
    /\ IF stockHistory[a] # <<>>
       THEN /\ last' = Msg("delete_accessory", "integrity_error", "", 0, "", 0, a)
            /\ UNCHANGED <<accessories, stockHistory, links, orders, edits>>
       ELSE /\ accessories' = [b \in DOMAIN accessories \ {a} |-> accessories[b]]
            /\ stockHistory' = [b \in DOMAIN accessories \ {a} |-> stockHistory[b]]
            /\ links' = DropRows(links, 0, a)
            /\ orders' = [o \in 1..Len(orders) |-> WithoutAccessory(orders[o], a)]
            /\ edits' = edits + 1
            /\ last' = Msg("delete_accessory", "ok", "", 0, "", 0, a)
    /\ UNCHANGED <<families, statusHistory, cart, page>>

(***************************************************************************)
(* Inventory page                                                          *)
(***************************************************************************)
\* the script takes the selected accessory from get_all_accessories_cached():
\* an instance that belongs to no database session.  Every handler that
\* commits a change to the accessories table clears that cache, so the
\* instance carries the level of the last commit.
SelectAccessory(s, a) ==
    /\ a \in DOMAIN accessories
    /\ page' = [page EXCEPT ![s] =
          [kind |-> "stock", a |-> a,
           current_stock_level |-> accessories[a].current_stock_level]]
    /\ last' = Msg("select_accessory", "ok", s, 0, "", 0, a)
    /\ UNCHANGED <<families, links, accessories, stockHistory, orders,
                   statusHistory, cart, edits>>

MovementsRecorded ==
    SumSeq([a \in 1..MaxAccessories |->
              IF a \in DOMAIN stockHistory THEN Len(stockHistory[a]) ELSE 0])

\* db.add(StockHistory(...)); db.commit(): the row is inserted.  The level
\* was changed on the loaded instance, which is in no session: the commit
\* writes nothing to the accessories table.  A row for an accessory that was
\* deleted after the page loaded it belongs to no accessory and is not kept.
CommitMovement(a, change_type, change, new_level) ==
    /\ MovementsRecorded < MaxMoves
    /\ stockHistory' =
          IF a \in DOMAIN stockHistory
          THEN [stockHistory EXCEPT ![a] =
                  Append(@, [change_type |-> change_type, quantity_change |-> change,
                             new_stock_level |-> new_level])]
          ELSE stockHistory
    /\ accessories' = accessories

\* "Record Stock In" (the quantity input has min_value = 1)
RecordStockIn(s, qty) ==
    /\ page[s].kind = "stock"
    /\ qty >= 1
    /\ CommitMovement(page[s].a, "IN", qty, page[s].current_stock_level + qty)
    /\ last' = Msg("stock_in", "ok", s, 0, "", qty, page[s].a)
    /\ page' = [page EXCEPT ![s] = NoPage]
    /\ UNCHANGED <<families, links, orders, statusHistory, cart, edits>>

\* "Record Stock Out" without the comparison with the current level
StockOutUnchecked(s, qty) ==
    /\ page[s].kind = "stock"
    /\ qty >= 1
    /\ CommitMovement(page[s].a, "OUT", -qty, page[s].current_stock_level - qty)
    /\ last' = Msg("stock_out", "ok", s, 0, "", qty, page[s].a)
    /\ page' = [page EXCEPT ![s] = NoPage]
    /\ UNCHANGED <<families, links, orders, statusHistory, cart, edits>>

\* "Record Stock Out" (the quantity input has min_value = 1)
RecordStockOut(s, qty) ==
    /\ page[s].kind = "stock"
    /\ qty >= 1
    /\ IF page[s].current_stock_level < qty
       THEN /\ last' = Msg("stock_out", "not_enough_stock", s, 0, "", qty, page[s].a)
            /\ UNCHANGED <<accessories, stockHistory>>
       ELSE /\ CommitMovement(page[s].a, "OUT", -qty,
                              page[s].current_stock_level - qty)
            /\ last' = Msg("stock_out", "ok", s, 0, "", qty, page[s].a)
    /\ page' = [page EXCEPT ![s] = NoPage]
    /\ UNCHANGED <<families, links, orders, statusHistory, cart, edits>>

\* "Record Adjustment" that refuses a change taking the level below zero
AdjustmentChecked(s, qty, has_reason) ==
    /\ page[s].kind = "stock"
    /\ IF ~has_reason
       THEN /\ last' = Msg("adjust", "reason_required", s, 0, "", qty, page[s].a)
            /\ UNCHANGED <<accessories, stockHistory>>
       ELSE IF page[s].current_stock_level + qty < 0
       THEN /\ last' = Msg("adjust", "not_enough_stock", s, 0, "", qty, page[s].a)
            /\ UNCHANGED <<accessories, stockHistory>>
       ELSE /\ CommitMovement(page[s].a, "ADJUSTMENT", qty,
                              page[s].current_stock_level + qty)
            /\ last' = Msg("adjust", "ok", s, 0, "", qty, page[s].a)
    /\ page' = [page EXCEPT ![s] = NoPage]
    /\ UNCHANGED <<families, links, orders, statusHistory, cart, edits>>

\* "Record Adjustment" (admin): any integer, a reason is required
RecordAdjustment(s, qty, has_reason) ==
    /\ page[s].kind = "stock"
    /\ IF has_reason
       THEN /\ CommitMovement(page[s].a, "ADJUSTMENT", qty,
                              page[s].current_stock_level + qty)
            /\ last' = Msg("adjust", "ok", s, 0, "", qty, page[s].a)
       ELSE /\ last' = Msg("adjust", "reason_required", s, 0, "", qty, page[s].a)
            /\ UNCHANGED <<accessories, stockHistory>>
    /\ page' = [page EXCEPT ![s] = NoPage]
    /\ UNCHANGED <<families, links, orders, statusHistory, cart, edits>>

\* "Show Low Stock Only" and the "Low Stock Accessories" report: the rows
\* with current_stock_level < min_stock_level
LowStockAccessories ==
    {a \in DOMAIN accessories :
        accessories[a].current_stock_level < accessories[a].min_stock_level}

Init ==
    /\ families = SeedFamilies
    /\ links = SeedLinks
    /\ accessories = SeedAccessories
    /\ stockHistory = [a \in DOMAIN SeedAccessories |-> <<>>]
    /\ orders = <<>>
    /\ statusHistory = <<>>
    /\ cart = [s \in Sessions |-> <<>>]
    /\ page = [s \in Sessions |-> NoPage]
    /\ edits = 0
    /\ last = NoMessage

(***************************************************************************)
(* initialize_master_data run on a database that already holds data        *)
(***************************************************************************)
GrippingJaws == [accessory_id |-> "GJ-FLAT-001", min_stock_level |-> 3,
                 current_stock_level |-> 10]

\* the accessories and default links of the seed with the second accessory
\* of the UTM, "Gripping Jaws Set (Flat)"
SeededAccessories == SeedAccessories @@ (3 :> GrippingJaws)

SeededLinks == SeedLinks \o << LinkRow(1, 3, 1, FALSE, FALSE) >>

\* "if not mf: db.add(MachineFamily(...))", the lookup being by name
WithFamily(fams, row) ==
    IF \E f \in DOMAIN fams : fams[f].name = row.name
    THEN fams ELSE fams @@ (NextId(DOMAIN fams) :> row)

\* "if not acc: db.add(Accessory(...))", the lookup being by accessory_id
WithAccessory(accs, row) ==
    IF \E a \in DOMAIN accs : accs[a].accessory_id = row.accessory_id
    THEN accs ELSE accs @@ (NextId(DOMAIN accs) :> row)

\* the id of the row with the given key after the first two commits
IdOfFamily(fams, name) == CHOOSE f \in DOMAIN fams : fams[f].name = name

IdOfAccessory(accs, sku) == CHOOSE a \in DOMAIN accs : accs[a].accessory_id = sku

\* the FamilyAccessory rows the function adds before its third commit: both
\* links of the UTM when the link to the load cell is missing, the document
\* link when it is missing
SeedLinksToAdd(fams, accs) ==
    LET mf1 == IdOfFamily(fams, UTM)
        mf4 == IdOfFamily(fams, DocumentsBundle)
        acc1 == IdOfAccessory(accs, "LC-10KN-001")
        acc2 == IdOfAccessory(accs, "GJ-FLAT-001")
        acc6 == IdOfAccessory(accs, "DOC-CALIB-001")
    IN (IF SelectRows(links, mf1, acc1) = <<>>
        THEN << LinkRow(mf1, acc1, 1, FALSE, FALSE),
                LinkRow(mf1, acc2, 1, FALSE, FALSE) >>
        ELSE <<>>)
       \o
       (IF SelectRows(links, mf4, acc6) = <<>>
        THEN << LinkRow(mf4, acc6, 1, FALSE, TRUE) >>
        ELSE <<>>)

\* _family_accessory_uc: no two rows for one (machine family, accessory)
LinksUnique(rows) ==
    \A m, n \in 1..Len(rows) :
        /\ rows[m].machine_family_id = rows[n].machine_family_id
        /\ rows[m].accessory_id = rows[n].accessory_id
        => m = n

\* initialize_master_data(db): families and accessories are committed first;
\* the links are flushed by the third commit, which fails as a whole when a
\* row breaks the unique constraint
InitializeMasterData ==
    LET fams == WithFamily(WithFamily(families, SeedFamilies[1]), SeedFamilies[2])
        accs == WithAccessory(WithAccessory(WithAccessory(accessories,
                    SeedAccessories[1]), GrippingJaws), SeedAccessories[2])
        added == SeedLinksToAdd(fams, accs)
    IN /\ DOMAIN fams \subseteq 1..MaxFamilies
       /\ DOMAIN accs \subseteq 1..MaxAccessories
       /\ families' = fams
       /\ accessories' = accs
       /\ stockHistory' = [a \in DOMAIN accs |->
                             IF a \in DOMAIN stockHistory
                             THEN stockHistory[a] ELSE <<>>]
       /\ IF LinksUnique(links \o added)
          THEN /\ links' = links \o added
               /\ last' = Msg("seed", "ok", "", 0, "", 0, 0)
          ELSE /\ links' = links
               /\ last' = Msg("seed", "integrity_error", "", 0, "", 0, 0)
       /\ UNCHANGED <<orders, statusHistory, cart, page, edits>>

\* the database after the first run of initialize_master_data
InitSeeded ==
    /\ families = SeedFamilies
    /\ links = SeededLinks
    /\ accessories = SeededAccessories
    /\ stockHistory = [a \in DOMAIN SeededAccessories |-> <<>>]
    /\ orders = <<>>
    /\ statusHistory = <<>>
    /\ cart = [s \in Sessions |-> <<>>]
    /\ page = [s \in Sessions |-> NoPage]
    /\ edits = 0
    /\ last = NoMessage

(***************************************************************************)
(* REST order API: POST and PUT /api/orders                                *)
(***************************************************************************)
\* three values of the OrderStatus enumeration
RestStatuses == {"raw_material_ordered", "raw_material_received", "dispatch"}

\* a request body without the key 'status'
NoStatus == ""

RestBodies == RestStatuses \cup {NoStatus}

\* Order.from_dict(data): the order with the status of the request body
FromDict(data_status) ==
    [order_number |-> NextOrderNumber,
     status |-> data_status,
     total_amount |-> 0,
     items |-> <<>>]

\* order.update_from_dict(data): the keys of the body are set on the order
UpdateFromDict(order, data_status) ==
    IF data_status = NoStatus THEN order
    ELSE [order EXCEPT !.status = data_status]

\* POST /api/orders: the order and its first history row in one commit
RestCreateOrder(data_status) ==
    /\ Len(orders) < MaxOrders
    /\ data_status \in RestStatuses
    /\ LET order == FromDict(data_status)
       IN /\ orders' = Append(orders, order)
          /\ statusHistory' = Append(statusHistory,
                                 << [status |-> order.status, from |-> ""] >>)
          /\ last' = Msg("rest_create", "ok", "", Len(orders) + 1, data_status, 0, 0)
    /\ UNCHANGED <<families, links, accessories, stockHistory, cart, page, edits>>

\* PUT /api/orders/<id>, first half: Order.query.get(id) in the session of
\* the request
RestLoadOrder(r, o) ==
    /\ o \in 1..Len(orders)
    /\ page[r] = NoPage
    /\ page' = [page EXCEPT ![r] = [kind |-> "rest", o |-> o, order |-> orders[o]]]
    /\ last' = Msg("rest_load", "ok", r, o, "", 0, 0)
    /\ UNCHANGED <<families, links, accessories, stockHistory, orders,
                   statusHistory, cart, edits>>

\* PUT /api/orders/<id>, second half: old_status is the status of the loaded
\* order, the body is applied to it, the history row is added when the body
\* names a status other than old_status, and the commit writes the changed
\* attributes and the new row
RestCommitUpdate(r, data_status) ==
    /\ page[r].kind = "rest"
    /\ data_status \in RestBodies
    /\ LET o == page[r].o
           old_status == page[r].order.status
           updated == UpdateFromDict(page[r].order, data_status)
       IN /\ orders' = IF updated.status # old_status
                       THEN [orders EXCEPT ![o].status = updated.status]
                       ELSE orders
          /\ IF data_status # NoStatus /\ old_status # data_status
             THEN /\ StatusUpdates < MaxStatusUpdates
                  /\ statusHistory' = [statusHistory EXCEPT ![o] =
                        Append(@, [status |-> data_status, from |-> old_status])]
             ELSE UNCHANGED statusHistory
          /\ last' = Msg("rest_update", "ok", r, o, data_status, 0, 0)
    /\ page' = [page EXCEPT ![r] = NoPage]
    /\ UNCHANGED <<families, links, accessories, stockHistory, cart, edits>>

(***************************************************************************)
(* Specifications                                                          *)
(***************************************************************************)
\* one session entering orders and changing their status, seed master data
NextStatus ==
    \/ \E f \in 1..MaxFamilies, q \in 1..MaxQty : AddProductToOrder("s1", f, q)
    \/ ClearOrderItems("s1")
    \/ CreateOrder("s1")
    \/ \E o \in 1..MaxOrders, t \in StatusSet : ChangeOrderStatus("s1", o, t)

SpecStatus == Init /\ [][NextStatus]_vars

\* the targets tried where the dispatch check is what matters
DispatchTargets == {"Approved", "Ready for Dispatch", "Dispatched"}

\* one session working through master data, order entry, accessories and status
NextOrder ==
    \/ \E name \in FamilyNames, p \in BOOLEAN, price \in Prices :
          AddMachineFamily(name, p, price)
    \/ \E f \in 1..MaxFamilies : DeleteMachineFamily(f)
    \/ \E f \in 1..MaxFamilies, a \in 1..MaxAccessories, req \in BOOLEAN :
          LinkDefaultAccessory(f, a, 1, FALSE, req)
    \/ \E f \in 1..MaxFamilies : AddProductToOrder("s1", f, 1)
    \/ CreateOrder("s1")
    \/ \E o \in 1..MaxOrders, t \in DispatchTargets : ChangeOrderStatus("s1", o, t)
    \/ \E o \in 1..MaxOrders, i \in 1..MaxFamilies, k \in 1..MaxAccessories,
          n \in NotesInputs : SaveAccessoryUpdate(o, i, k, n)

SpecOrder == Init /\ [][NextOrder]_vars

\* the targets two racing sessions choose from
RaceTargets == {"Approved", "Dispatched", "Cancelled"}

\* an order entered by one session, its status changed by two side by side
NextRace ==
    \/ \E f \in 1..MaxFamilies : AddProductToOrder("s1", f, 1)
    \/ CreateOrder("s1")
    \/ \E s \in Sessions :
        \/ \E o \in 1..MaxOrders : ViewOrder(s, o)
        \/ \E t \in RaceTargets : UpdateOrderStatus(s, t)

SpecRace == Init /\ [][NextRace]_vars

\* two sessions recording stock movements side by side
NextStock ==
    \/ \E sku \in Skus, m \in MinStockLevels, c \in StockLevels :
          AddAccessory(sku, m, c)
    \/ \E s \in Sessions :
        \/ \E a \in 1..MaxAccessories : SelectAccessory(s, a)
        \/ \E q \in MoveQuantities : RecordStockIn(s, q)
        \/ \E q \in MoveQuantities : RecordStockOut(s, q)
        \/ \E q \in AdjustQuantities, r \in BOOLEAN : RecordAdjustment(s, q, r)

SpecStock == Init /\ [][NextStock]_vars


\* the default quantity, "Is Variable?" and "Required for Dispatch?" entered
LinkSettings == {<<1, FALSE, FALSE>>, <<2, TRUE, TRUE>>, <<2, FALSE, TRUE>>}

\* the master data page used to link and unlink default accessories
NextLinks ==
    \/ \E f \in 1..MaxFamilies, a \in 1..MaxAccessories, x \in LinkSettings :
          LinkDefaultAccessory(f, a, x[1], x[2], x[3])
    \/ \E f \in 1..MaxFamilies, a \in 1..MaxAccessories :
          UnlinkDefaultAccessory(f, a)

SpecLinks == Init /\ [][NextLinks]_vars

\* one session configuring default accessories and entering orders
NextDefaults ==
    \/ \E f \in 1..MaxFamilies, a \in 1..MaxAccessories, x \in LinkSettings :
          LinkDefaultAccessory(f, a, x[1], x[2], x[3])
    \/ \E f \in 1..MaxFamilies, q \in 1..MaxQty : AddProductToOrder("s1", f, q)
    \/ CreateOrder("s1")

SpecDefaults == Init /\ [][NextDefaults]_vars

\* one session entering orders, recording stock and deleting master data
NextDelete ==
    \/ \E f \in 1..MaxFamilies : AddProductToOrder("s1", f, 1)
    \/ CreateOrder("s1")
    \/ \E f \in 1..MaxFamilies : DeleteMachineFamily(f)
    \/ \E a \in 1..MaxAccessories : DeleteAccessory(a)
    \/ \E a \in 1..MaxAccessories : SelectAccessory("s1", a)
    \/ \E q \in MoveQuantities : RecordStockIn("s1", q)

SpecDelete == Init /\ [][NextDelete]_vars

\* one session reaching each way an operation can end in an error: a family
\* deleted while it is in the order being configured, a Documents Bundle made
\* orderable and dispatched with a required document missing, a production
\* step that does not exist, stock issued beyond the level, an adjustment
\* without a reason
NextErrors ==
    \/ \E f \in 1..MaxFamilies : DeleteMachineFamily(f)
    \/ \E price \in Prices : AddMachineFamily(DocumentsBundle, TRUE, price)
    \/ \E f \in FamilyNamed(DocumentsBundle) :
          LinkDefaultAccessory(f, 2, 1, FALSE, TRUE)
    \/ \E f \in 1..MaxFamilies : AddProductToOrder("s1", f, 1)
    \/ CreateOrder("s1")
    \/ \E o \in 1..MaxOrders : ChangeOrderStatus("s1", o, "Dispatched")
    \/ \E o \in 1..MaxOrders, i \in 1..MaxFamilies, n \in {"Fabrication", "Painting"} :
          UpdateOrderItemProductionStatus("s1", o, i, n, "Completed")
    \/ \E a \in 1..MaxAccessories : SelectAccessory("s1", a)
    \/ RecordStockOut("s1", 101)
    \/ RecordAdjustment("s1", -5, FALSE)

SpecErrors == Init /\ [][NextErrors]_vars

\* two sessions entering orders side by side
NextNumbers ==
    \E s \in Sessions :
        \/ \E f \in 1..MaxFamilies : AddProductToOrder(s, f, 1)
        \/ BeginCreateOrder(s)
        \/ CommitCreateOrder(s)

SpecNumbers == Init /\ [][NextNumbers]_vars

\* master data as an administrator's edits leave it: the seeded "Documents
\* Bundle" as it is or replaced by a product of the same name with the same
\* required document (delete, add, link), and the load cell of the UTM
\* required for dispatch or not (link)
ConfiguredFamilies == {SeedFamilies, [SeedFamilies EXCEPT ![2].is_product = TRUE]}

ConfiguredLinks == {[SeedLinks EXCEPT ![1].is_required_for_dispatch = r] : r \in BOOLEAN}

InitConfigured ==
    /\ families \in ConfiguredFamilies
    /\ links \in ConfiguredLinks
    /\ accessories = SeedAccessories
    /\ stockHistory = [a \in DOMAIN SeedAccessories |-> <<>>]
    /\ orders = <<>>
    /\ statusHistory = <<>>
    /\ cart = [s \in Sessions |-> <<>>]
    /\ page = [s \in Sessions |-> NoPage]
    /\ edits = 0
    /\ last = NoMessage

\* one session entering an order on that master data, completing its
\* accessories and asking for dispatch
NextBlocked ==
    \/ \E f \in 1..MaxFamilies : AddProductToOrder("s1", f, 1)
    \/ CreateOrder("s1")
    \/ \E o \in 1..MaxOrders, i \in 1..MaxFamilies, k \in 1..MaxAccessories,
          n \in NotesInputs : SaveAccessoryUpdate(o, i, k, n)
    \/ \E o \in 1..MaxOrders, t \in DispatchTargets : ChangeOrderStatus("s1", o, t)

SpecBlocked == InitConfigured /\ [][NextBlocked]_vars

\* one session pricing families and entering orders of several units
NextTotals ==
    \/ \E f \in 1..MaxFamilies : DeleteMachineFamily(f)
    \/ \E name \in FamilyNames, price \in Prices : AddMachineFamily(name, TRUE, price)
    \/ \E f \in 1..MaxFamilies, q \in 1..MaxQty : AddProductToOrder("s1", f, q)
    \/ ClearOrderItems("s1")
    \/ CreateOrder("s1")

SpecTotals == Init /\ [][NextTotals]_vars

\* one session entering an order and moving its line items through production
NextProduction ==
    \/ \E f \in 1..MaxFamilies : AddProductToOrder("s1", f, 1)
    \/ CreateOrder("s1")
    \/ \E o \in 1..MaxOrders, i \in 1..MaxFamilies, n \in StepNames,
          status \in ProductionStatuses :
          UpdateOrderItemProductionStatus("s1", o, i, n, status)

SpecProduction == Init /\ [][NextProduction]_vars

\* one session entering orders, changing their status, recording stock, and
\* deleting accessories, machine families and orders
NextLogs ==
    \/ \E f \in 1..MaxFamilies : AddProductToOrder("s1", f, 1)
    \/ CreateOrder("s1")
    \/ \E o \in 1..MaxOrders, t \in RaceTargets : ChangeOrderStatus("s1", o, t)
    \/ \E o \in 1..MaxOrders : DeleteOrder(o)
    \/ \E a \in 1..MaxAccessories : SelectAccessory("s1", a)
    \/ \E q \in MoveQuantities : RecordStockIn("s1", q)
    \/ \E a \in 1..MaxAccessories : DeleteAccessory(a)
    \/ \E f \in 1..MaxFamilies : DeleteMachineFamily(f)

SpecLogs == Init /\ [][NextLogs]_vars

\* one session linking and unlinking default accessories and entering orders
NextUnique ==
    \/ \E f \in 1..MaxFamilies, a \in 1..MaxAccessories :
          LinkDefaultAccessory(f, a, 1, FALSE, FALSE)
    \/ \E f \in 1..MaxFamilies, a \in 1..MaxAccessories :
          UnlinkDefaultAccessory(f, a)
    \/ \E f \in 1..MaxFamilies : AddProductToOrder("s1", f, 1)
    \/ CreateOrder("s1")

SpecUnique == Init /\ [][NextUnique]_vars

\* one session making the load cell of the UTM required for dispatch, entering
\* orders, completing accessories and asking for dispatch; the seeded
\* "Documents Bundle" is no product, so no order has a line item of it
NextDispatch ==
    \/ LinkDefaultAccessory(1, 1, 1, FALSE, TRUE)
    \/ \E f \in 1..MaxFamilies : AddProductToOrder("s1", f, 1)
    \/ CreateOrder("s1")
    \/ \E o \in 1..MaxOrders, i \in 1..MaxFamilies, k \in 1..MaxAccessories,
          n \in NotesInputs : SaveAccessoryUpdate(o, i, k, n)
    \/ \E o \in 1..MaxOrders, t \in DispatchStatuses : ChangeOrderStatus("s1", o, t)

SpecDispatch == Init /\ [][NextDispatch]_vars

\* the master data page on a seeded database, and initialize_master_data
\* called again
NextSeed ==
    \/ \E f \in 1..MaxFamilies, a \in 1..MaxAccessories :
          LinkDefaultAccessory(f, a, 1, FALSE, FALSE)
    \/ \E f \in 1..MaxFamilies, a \in 1..MaxAccessories :
          UnlinkDefaultAccessory(f, a)
    \/ \E f \in 1..MaxFamilies : DeleteMachineFamily(f)
    \/ \E a \in 1..MaxAccessories : DeleteAccessory(a)
    \/ InitializeMasterData

SpecSeed == InitSeeded /\ [][NextSeed]_vars

\* two clients of the REST order API
NextRest ==
    \/ \E data_status \in RestStatuses : RestCreateOrder(data_status)
    \/ \E r \in Sessions, o \in 1..MaxOrders : RestLoadOrder(r, o)
    \/ \E r \in Sessions, data_status \in RestBodies :
          RestCommitUpdate(r, data_status)

SpecRest == Init /\ [][NextRest]_vars

\* the inputs of the operations on orders and accessories taken in turn
FrameTargets == {"Approved"}

FrameSteps == {"Fabrication"}

FrameNotes == {"Attached"}

\* one session entering two orders and working on them and on the stock
NextFrame ==
    \/ \E f \in 1..MaxFamilies : AddProductToOrder("s1", f, MaxQty)
    \/ BeginCreateOrder("s1")
    \/ CommitCreateOrder("s1")
    \/ \E o \in 1..MaxCommits, t \in FrameTargets : ChangeOrderStatus("s1", o, t)
    \/ \E o \in 1..MaxCommits, i \in 1..MaxFamilies, n \in FrameSteps :
          UpdateOrderItemProductionStatus("s1", o, i, n, "Completed")
    \/ \E o \in 1..MaxCommits, i \in 1..MaxFamilies, k \in 1..MaxAccessories,
          n \in FrameNotes : SaveAccessoryUpdate(o, i, k, n)
    \/ \E a \in 1..MaxAccessories : SelectAccessory("s1", a)
    \/ RecordStockIn("s1", 1)

SpecFrame == Init /\ [][NextFrame]_vars

(***************************************************************************)
(* Properties                                                              *)
(***************************************************************************)
Position(status) == CHOOSE i \in 1..Len(OrderStatuses) : OrderStatuses[i] = status

TerminalStatuses == {"Completed", "Cancelled"}

LastRow(rows) == rows[Len(rows)]

\* the step is a status request for order o
StatusRequested(o) == last'.op = "update_status" /\ last'.o = o

\* some accessory of the order is required for dispatch
HasRequired(order) ==
    \E i \in 1..Len(order.items) : \E k \in 1..Len(order.items[i].accessories) :
        order.items[i].accessories[k].is_required_for_dispatch

\* some accessory of the order is required for dispatch and not "Attached"
HasIncompleteRequired(order) ==
    \E i \in 1..Len(order.items) : FirstIncomplete(order.items[i].accessories) # 0

\* the level before the first recorded movement, as the ledger implies it
LevelBeforeMovements(a) ==
    IF stockHistory[a] = <<>> THEN accessories[a].current_stock_level
    ELSE stockHistory[a][1].new_stock_level - stockHistory[a][1].quantity_change

\* the sum of the quantity_change of the first n movements of accessory a
ChangeSum(a, n) == SumSeq([m \in 1..n |-> stockHistory[a][m].quantity_change])

\* C1: every order's status is the status of its most recent
\* OrderStatusHistory row, under every interleaving of two sessions
C1_StatusMatchesHistory ==
    \A o \in 1..Len(orders) :
        /\ Len(statusHistory[o]) >= 1
        /\ orders[o].status = LastRow(statusHistory[o]).status

\* an order whose status two committed updates have changed
C1_Witness ==
    \E o \in 1..Len(orders) :
        Len(statusHistory[o]) = 3 /\ orders[o].status # "Draft"

\* C2: every accessory's persisted current_stock_level is the new_stock_level
\* of its most recent StockHistory entry, or 0 when it has none
C2_StockMatchesLedger ==
    \A a \in DOMAIN accessories :
        accessories[a].current_stock_level =
            IF stockHistory[a] = <<>> THEN 0
            ELSE LastRow(stockHistory[a]).new_stock_level

\* C3: the position of an order's status in the sequence Draft .. Completed
\* never decreases, except by a change to Cancelled
C3_StatusNeverMovesBack ==
    [][\A o \in 1..Len(orders) :
          orders'[o].status # "Cancelled" =>
              Position(orders'[o].status) >= Position(orders[o].status)]_vars

\* C4: an order whose status is Completed or Cancelled keeps that status
C4_TerminalStatusIsAbsorbing ==
    [][\A o \in 1..Len(orders) :
          orders[o].status \in TerminalStatuses =>
              orders'[o].status = orders[o].status]_vars

\* C5: a request to change an order to Cancelled from a non-terminal status
\* sets the status to Cancelled and appends exactly one history row
C5_CancelSucceeds ==
    [][\A o \in 1..Len(orders) :
          (StatusRequested(o) /\ last'.target = "Cancelled"
             /\ orders[o].status \notin TerminalStatuses)
          => /\ last'.outcome = "ok"
             /\ orders'[o].status = "Cancelled"
             /\ statusHistory'[o] = Append(statusHistory[o],
                    [status |-> "Cancelled", from |-> orders[o].status])]_vars

\* an order cancelled after it was dispatched
C5_Witness ==
    \E o \in 1..Len(orders) :
        /\ last = Msg("update_status", "ok", "s1", o, "Cancelled", 0, 0)
        /\ orders[o].status = "Cancelled"
        /\ LastRow(statusHistory[o]).from = "Dispatched"

\* C6: a change to Ready for Dispatch or Dispatched is rejected whenever some
\* accessory of the order, of whatever family, is required for dispatch and
\* not complete
C6_DispatchRejectedWhenIncomplete ==
    [][\A o \in 1..Len(orders) :
          (StatusRequested(o) /\ last'.target \in DispatchStatuses
             /\ HasIncompleteRequired(orders[o]))
          => /\ last'.outcome = "blocked"
             /\ orders'[o].status = orders[o].status]_vars

\* C7: for an order with a required-for-dispatch accessory, a dispatch attempt
\* is blocked and logs nothing while the accessory is incomplete, and once it
\* is complete the attempt sets the status to Dispatched and appends one row
C7_DispatchBlockedThenSucceeds ==
    [][\A o \in 1..Len(orders) :
          (StatusRequested(o) /\ last'.target = "Dispatched"
             /\ orders[o].status # "Dispatched" /\ HasRequired(orders[o]))
          => IF HasIncompleteRequired(orders[o])
             THEN /\ last'.outcome = "blocked"
                  /\ orders'[o] = orders[o]
                  /\ statusHistory'[o] = statusHistory[o]
             ELSE /\ orders'[o].status = "Dispatched"
                  /\ Len(statusHistory'[o]) = Len(statusHistory[o]) + 1
                  /\ LastRow(statusHistory'[o]).status = "Dispatched"]_vars

\* C8: a stock OUT request for more than the accessory's current stock level
\* fails, changes no stock level and appends no StockHistory entry
C8_StockOutRejected ==
    [][\A s \in Sessions :
          (last'.op = "stock_out" /\ last'.s = s /\ page[s].kind = "stock"
             /\ last'.qty > accessories[page[s].a].current_stock_level)
          => /\ last'.outcome = "not_enough_stock"
             /\ accessories' = accessories
             /\ stockHistory' = stockHistory]_vars

\* an OUT of 5 refused for an accessory whose level is 3
C8_Witness ==
    /\ last.op = "stock_out"
    /\ last.outcome = "not_enough_stock"
    /\ last.qty = 5
    /\ accessories[last.acc].current_stock_level = 3

\* C9: no stock update is lost: the persisted level is the level before the
\* first movement plus the sum of all committed quantity_change values, and
\* IN and OUT movements alone never take that sum below zero
C9_NoLostStockUpdate ==
    \A a \in DOMAIN accessories :
        /\ accessories[a].current_stock_level =
              LevelBeforeMovements(a) + ChangeSum(a, Len(stockHistory[a]))
        /\ (\A m \in 1..Len(stockHistory[a]) :
               stockHistory[a][m].change_type # "ADJUSTMENT")
           => \A n \in 1..Len(stockHistory[a]) :
                 LevelBeforeMovements(a) + ChangeSum(a, n) >= 0

\* C10: after concurrent status updates the order's status is that of the
\* last history row, and each row names as its 'from' status the status the
\* order had just before the row's transition
C10_HistoryNamesActualPrevious ==
    \A o \in 1..Len(orders) :
        /\ orders[o].status = LastRow(statusHistory[o]).status
        /\ \A n \in 2..Len(statusHistory[o]) :
              statusHistory[o][n].from = statusHistory[o][n - 1].status

\* C11: linking a (family, accessory) pair leaves exactly one FamilyAccessory
\* row for the pair, carrying the quantity and flags of this call, whether or
\* not the pair was linked before; the rows of other pairs stay as they were
C11_LinkIsUpsert ==
    [][last'.op = "link" =>
          \A f \in 1..MaxFamilies, a \in 1..MaxAccessories, x \in LinkSettings :
             LinkDefaultAccessory(f, a, x[1], x[2], x[3])
             => /\ SelectRows(links', f, a) = << LinkRow(f, a, x[1], x[2], x[3]) >>
                /\ DropRows(links', f, a) = DropRows(links, f, a)]_vars

\* the seeded pair (UTM, Load Cell) linked again with other values: still two
\* rows in the table, and the pair's row carries the new values
C11_Witness ==
    /\ last.op = "link"
    /\ Len(links) = Len(SeedLinks)
    /\ SelectRows(links, 1, 1) = << LinkRow(1, 1, 2, TRUE, TRUE) >>
    /\ links[2] = SeedLinks[2]

\* C12: a line item of quantity q created for a machine family gets exactly
\* one OrderItemAccessory per FamilyAccessory default of the family, in the
\* defaults' order, with quantity = default_quantity * q and
\* is_required_for_dispatch copied, and no other accessory
C12_DefaultsMaterialized ==
    [][(last'.op = "create_order" /\ last'.outcome = "ok") =>
          LET order == orders'[Len(orders')]
          IN \A i \in 1..Len(order.items) :
                LET item == order.items[i]
                    defaults == SelectRows(links, item.machine_family_id, 0)
                IN /\ Len(item.accessories) = Len(defaults)
                   /\ \A n \in 1..Len(defaults) :
                         /\ item.accessories[n].accessory_id =
                               defaults[n].accessory_id
                         /\ item.accessories[n].quantity =
                               defaults[n].default_quantity * item.quantity
                         /\ item.accessories[n].is_required_for_dispatch =
                               defaults[n].is_required_for_dispatch]_vars

\* an order for two machines of a family with two defaults, one of them
\* required for dispatch with default quantity 2: four of it on the line item
C12_Witness ==
    \E o \in 1..Len(orders) : \E i \in 1..Len(orders[o].items) :
        LET item == orders[o].items[i]
        IN /\ item.quantity = 2
           /\ Len(item.accessories) = 2
           /\ \E n \in 1..2 : /\ item.accessories[n].quantity = 4
                              /\ item.accessories[n].is_required_for_dispatch

\* C13: no step removes a machine family or an accessory that an order line
\* item or order item accessory references: after every step each OrderItem
\* references an existing machine family, and each OrderItemAccessory that
\* was there is still there and references an existing accessory
C13_NoOrphanedOrderData ==
    [][/\ \A o \in 1..Len(orders') : \A i \in 1..Len(orders'[o].items) :
             orders'[o].items[i].machine_family_id \in DOMAIN families'
       /\ \A o \in 1..Len(orders) : \A i \in 1..Len(orders[o].items) :
             /\ Len(orders'[o].items[i].accessories) =
                   Len(orders[o].items[i].accessories)
             /\ \A k \in 1..Len(orders[o].items[i].accessories) :
                   orders[o].items[i].accessories[k].accessory_id
                      \in DOMAIN accessories']_vars

\* the ways a handler reports that it did not do what was asked
ErrorOutcomes ==
    {"blocked", "not_enough_stock", "reason_required", "unknown_step",
     "integrity_error", "no_items", "exists"}

\* C14: a step whose operation ends in an error (blocked dispatch, insufficient
\* stock, adjustment without a reason, unknown production step, failed order
\* creation) leaves every table as it was: no order, line item, accessory or
\* history row of a failed order creation is persisted
C14_ErrorsChangeNothing ==
    [][last'.outcome \in ErrorOutcomes =>
          UNCHANGED <<families, links, accessories, stockHistory, orders,
                      statusHistory>>]_vars

\* an order creation that failed on a deleted machine family, with none of
\* the order persisted
C14_Witness ==
    /\ last.op = "create_order"
    /\ last.outcome = "integrity_error"
    /\ orders = <<>>
    /\ statusHistory = <<>>
    /\ cart["s1"] # <<>>

\* C15: under any interleaving of order creations the committed orders have
\* pairwise distinct order numbers, and the number of each order that is
\* created is one more than the largest number existing at its commit (1 for
\* the first order)
C15_OrderNumbersSequential ==
    [][Len(orders') > Len(orders) =>
          LET new == orders'[Len(orders')]
              existing == {orders[o].order_number : o \in 1..Len(orders)}
          IN /\ new.order_number = IF existing = {} THEN 1 ELSE SetMax(existing) + 1
             /\ \A o1, o2 \in 1..Len(orders') :
                   o1 # o2 => orders'[o1].order_number # orders'[o2].order_number]_vars

\* two orders numbered 1 and 2, and a creation by the other session refused
\* because the number it had read was taken meanwhile
C15_Witness ==
    /\ Len(orders) = 2
    /\ orders[1].order_number = 1
    /\ orders[2].order_number = 2
    /\ last.op = "create_order"
    /\ last.outcome = "integrity_error"
    /\ last.qty = 2

\* C16: the low-stock set is the set of accessories whose stock level, as it
\* results from the recorded movements, is below min_stock_level
C16_LowStockFollowsMovements ==
    LowStockAccessories =
        {a \in DOMAIN accessories :
            LevelBeforeMovements(a) + ChangeSum(a, Len(stockHistory[a]))
                < accessories[a].min_stock_level}

\* C18: the new_stock_level of each StockHistory entry that is appended is the
\* new_stock_level of the accessory's previous entry plus the entry's
\* quantity_change; for the first entry, the level before it plus the change
C18_SnapshotsChain ==
    [][\A a \in DOMAIN stockHistory \cap DOMAIN stockHistory' :
          Len(stockHistory'[a]) = Len(stockHistory[a]) + 1
          => LET new == LastRow(stockHistory'[a])
                 previous == IF stockHistory[a] = <<>>
                             THEN accessories[a].current_stock_level
                             ELSE LastRow(stockHistory[a]).new_stock_level
             IN new.new_stock_level = previous + new.quantity_change]_vars

\* C19: a step that changes an accessory's persisted current_stock_level
\* appends exactly one StockHistory entry for it, and a step that appends an
\* entry changes the persisted level by the entry's quantity_change
C19_LevelChangesWithEntry ==
    [][\A a \in DOMAIN accessories \cap DOMAIN accessories' :
          /\ accessories'[a].current_stock_level # accessories[a].current_stock_level
             => /\ Len(stockHistory'[a]) = Len(stockHistory[a]) + 1
                /\ SubSeq(stockHistory'[a], 1, Len(stockHistory[a])) = stockHistory[a]
          /\ Len(stockHistory'[a]) = Len(stockHistory[a]) + 1
             => accessories'[a].current_stock_level =
                   accessories[a].current_stock_level
                     + LastRow(stockHistory'[a]).quantity_change]_vars

\* C20: an adjustment entered with a reason is recorded whatever the level it
\* leads to, and an accessory with IN and OUT movements only has a
\* current_stock_level and recorded new_stock_levels that are never negative
C20_OnlyAdjustmentGoesNegative ==
    [][/\ \A s \in Sessions :
             (last'.op = "adjust" /\ last'.s = s /\ page[s].kind = "stock"
                /\ page[s].a \in DOMAIN stockHistory)
             => \/ last'.outcome = "reason_required"
                \/ /\ last'.outcome = "ok"
                   /\ stockHistory'[page[s].a] = Append(stockHistory[page[s].a],
                         [change_type |-> "ADJUSTMENT", quantity_change |-> last'.qty,
                          new_stock_level |-> page[s].current_stock_level + last'.qty])
       /\ \A a \in DOMAIN accessories' :
             (/\ <<accessories, stockHistory>>' # <<accessories, stockHistory>>
              /\ \A m \in 1..Len(stockHistory'[a]) :
                    stockHistory'[a][m].change_type # "ADJUSTMENT")
             => /\ accessories'[a].current_stock_level >= 0
                /\ \A m \in 1..Len(stockHistory'[a]) :
                      stockHistory'[a][m].new_stock_level >= 0]_vars

\* an adjustment recorded with a new_stock_level below zero, next to an
\* accessory with an OUT movement and no adjustment
C20_Witness ==
    /\ last.op = "adjust"
    /\ last.outcome = "ok"
    /\ \E a \in DOMAIN accessories :
          /\ stockHistory[a] # <<>>
          /\ LastRow(stockHistory[a]).change_type = "ADJUSTMENT"
          /\ LastRow(stockHistory[a]).new_stock_level < 0
    /\ \E a \in DOMAIN accessories :
          /\ stockHistory[a] # <<>>
          /\ \A m \in 1..Len(stockHistory[a]) : stockHistory[a][m].change_type = "OUT"

RECURSIVE FirstIncompleteOfItems(_)
\* over all line items in creation order, the first accessory that is
\* required for dispatch and not "Attached" (0: none)
FirstIncompleteOfItems(items) ==
    IF items = <<>> THEN 0
    ELSE IF FirstIncomplete(Head(items).accessories) # 0
         THEN FirstIncomplete(Head(items).accessories)
         ELSE FirstIncompleteOfItems(Tail(items))

\* C17: a blocked dispatch names the first incomplete required-for-dispatch
\* accessory of the order, line items taken in creation order and the
\* accessories of a line item in creation order
C17_BlockedNamesFirstIncomplete ==
    [][\A o \in 1..Len(orders) :
          (StatusRequested(o) /\ last'.outcome = "blocked")
          => last'.acc = FirstIncompleteOfItems(orders[o].items)]_vars

\* C21: every line item's total_price is quantity * unit_price, and every
\* order's total_amount is the sum of the total_price of its line items
C21_TotalsAreSums ==
    \A o \in 1..Len(orders) :
        /\ \A i \in 1..Len(orders[o].items) :
              orders[o].items[i].total_price =
                  orders[o].items[i].quantity * orders[o].items[i].unit_price
        /\ orders[o].total_amount =
              SumSeq([i \in 1..Len(orders[o].items) |-> orders[o].items[i].total_price])

\* an order of two line items, one of two units at a price that is not zero
C21_Witness ==
    \E o \in 1..Len(orders) :
        /\ Len(orders[o].items) = 2
        /\ \E i \in 1..2 : /\ orders[o].items[i].quantity = 2
                           /\ orders[o].items[i].unit_price = 2
                           /\ orders[o].items[i].total_price = 4
        /\ orders[o].total_amount >= 4

\* order_index of a production step: its place in the seeded sequence, 0 for
\* "Not Started"
OrderIndex(step_name) ==
    IF \E n \in 1..Len(ProductionSteps) : ProductionSteps[n] = step_name
    THEN CHOOSE n \in 1..Len(ProductionSteps) : ProductionSteps[n] = step_name
    ELSE 0

\* C22: the order_index of a line item's current production step never
\* decreases
C22_ProductionStepMovesForward ==
    [][\A o \in 1..Len(orders) : \A i \in 1..Len(orders[o].items) :
          OrderIndex(CurrentStep(orders'[o].items[i]))
              >= OrderIndex(CurrentStep(orders[o].items[i]))]_vars

C28_SameStatusIsNoOp ==
    [][\A o \in 1..Len(orders) :
          /\ (StatusRequested(o) /\ last'.target = orders[o].status)
             => /\ orders'[o] = orders[o]
                /\ statusHistory'[o] = statusHistory[o]
          /\ \A n \in 1..(Len(statusHistory'[o]) - 1) :
                statusHistory'[o][n].status # statusHistory'[o][n + 1].status]_vars

\* C29: no line item has two OrderItemAccessory records for the same
\* accessory, and no machine family has two default links for the same
\* accessory
C29_OneRecordPerAccessory ==
    /\ \A n, m \in 1..Len(links) :
          (links[n].machine_family_id = links[m].machine_family_id
             /\ links[n].accessory_id = links[m].accessory_id) => n = m
    /\ \A o \in 1..Len(orders) : \A i \in 1..Len(orders[o].items) :
          \A k, l \in 1..Len(orders[o].items[i].accessories) :
             orders[o].items[i].accessories[k].accessory_id
                 = orders[o].items[i].accessories[l].accessory_id => k = l

\* an order whose line item has two accessories, created after a link was
\* removed and a link was entered again
C29_Witness ==
    /\ edits = MaxEdits
    /\ Len(links) = 3
    /\ \E o \in 1..Len(orders) : \E i \in 1..Len(orders[o].items) :
          Len(orders[o].items[i].accessories) = 2

\* some line item of the order belongs to the family named "Documents Bundle"
HasDocumentsItem(order) ==
    \E i \in 1..Len(order.items) :
        order.items[i].machine_family_id \in FamilyNamed(DocumentsBundle)

C26_SeedingIdempotent ==
    [][last'.op = "seed" =>
         /\ last'.outcome = "ok"
         /\ \A f \in DOMAIN families :
               f \in DOMAIN families' /\ families'[f] = families[f]
         /\ \A a \in DOMAIN accessories :
               /\ a \in DOMAIN accessories'
               /\ accessories'[a] = accessories[a]
               /\ stockHistory'[a] = stockHistory[a]
         /\ Len(links') >= Len(links)
         /\ \A n \in 1..Len(links) : links'[n] = links[n]
         /\ LinksUnique(links')]_vars

\* C27: in the REST order API the status history of an order is a chain: the
\* first row has an empty old_status, every later row starts from the status
\* the row before it ended in, the last row ends in the order's current
\* status, and an update appends a row exactly when it changes the status
C27_HistoryIsChain ==
    /\ [](\A o \in 1..Len(orders) :
            LET h == statusHistory[o]
            IN /\ Len(h) >= 1
               /\ h[1].from = ""
               /\ \A n \in 2..Len(h) : h[n].from = h[n - 1].status
               /\ h[Len(h)].status = orders[o].status)
    /\ [][last'.op = "rest_update" =>
            LET o == last'.o
            IN (Len(statusHistory'[o]) = Len(statusHistory[o]) + 1)
               <=> (orders'[o].status # orders[o].status)]_vars

\* the orders and their status histories as one value
OrderRows == [orders |-> orders, statusHistory |-> statusHistory]

\* what the status handler leaves of the rows db for a request on order o
StatusEffect(db, o, new_status) ==
    IF DispatchBlocker(db.orders[o], new_status) # 0
       \/ db.orders[o].status = new_status
    THEN db
    ELSE [orders |-> [db.orders EXCEPT ![o].status = new_status],
          statusHistory |-> [db.statusHistory EXCEPT ![o] =
              Append(@, [status |-> new_status, from |-> db.orders[o].status])]]

\* what "Save Accessory Update" leaves of the rows db
AccessoryEffect(db, o, i, k, notes) ==
    [db EXCEPT !.orders[o].items[i].accessories[k].notes = notes]

\* what update_order_item_production_status leaves of the rows db
ProductionEffect(db, o, i, step_name, status) ==
    LET item == db.orders[o].items[i]
    IN IF step_name \notin {ProductionSteps[n] : n \in 1..Len(ProductionSteps)}
       THEN db
       ELSE IF StepRows(item, step_name) # {}
       THEN LET n == CHOOSE n \in StepRows(item, step_name) : TRUE
            IN IF item.production_status[n].status # status
               THEN [db EXCEPT !.orders[o].items[i].production_status =
                                   Restamped(@, n, status)]
               ELSE db
       ELSE [db EXCEPT !.orders[o].items[i].production_status =
                Append(@, [step |-> step_name, status |-> status,
                           rank |-> Len(@) + 1])]

\* what "Record Stock In" leaves of the stock history sh
MoveEffect(sh, a, qty) ==
    [sh EXCEPT ![a] =
        Append(@, [change_type |-> "IN", quantity_change |-> qty,
                   new_stock_level |-> accessories[a].current_stock_level + qty])]

\* the operations that can be requested on order o
OrderOps(o) ==
    {[kind |-> "status", o |-> o, target |-> t] : t \in FrameTargets}
    \cup
    UNION {{[kind |-> "production", o |-> o, i |-> i, step |-> n] :
               n \in FrameSteps} : i \in 1..Len(orders[o].items)}
    \cup
    UNION {UNION {{[kind |-> "accessory", o |-> o, i |-> i, k |-> k, notes |-> n] :
                      n \in FrameNotes} :
                  k \in 1..Len(orders[o].items[i].accessories)} :
           i \in 1..Len(orders[o].items)}

ApplyOrderOp(db, op) ==
    CASE op.kind = "status" -> StatusEffect(db, op.o, op.target)
      [] op.kind = "production" ->
            ProductionEffect(db, op.o, op.i, op.step, "Completed")
      [] op.kind = "accessory" ->
            AccessoryEffect(db, op.o, op.i, op.k, op.notes)

\* C25, first part: an operation on one order leaves every other order with
\* its line items, accessories and histories as it was, and a stock movement
\* on one accessory leaves every other accessory and its history as it was
FrameOfStep ==
    /\ last'.op \in {"update_status", "update_production", "update_accessory"}
       => \A p \in 1..Len(orders) :
             p # last'.o =>
                /\ orders'[p] = orders[p]
                /\ statusHistory'[p] = statusHistory[p]
    /\ last'.op = "stock_in"
       => \A b \in DOMAIN accessories :
             b # last'.acc =>
                /\ accessories'[b] = accessories[b]
                /\ stockHistory'[b] = stockHistory[b]

\* every handler does to the rows what its effect says
StepIsEffect ==
    /\ last'.op = "update_status"
       => OrderRows' = StatusEffect(OrderRows, last'.o, last'.target)
    /\ last'.op = "update_production"
       => \E i \in 1..Len(orders[last'.o].items) :
             OrderRows' = ProductionEffect(OrderRows, last'.o, i, last'.target,
                                           "Completed")
    /\ last'.op = "update_accessory"
       => \E i \in 1..Len(orders[last'.o].items) :
          \E k \in 1..Len(orders[last'.o].items[i].accessories) :
          \E n \in FrameNotes :
             OrderRows' = AccessoryEffect(OrderRows, last'.o, i, k, n)
    /\ last'.op = "stock_in"
       => stockHistory' = MoveEffect(stockHistory, last'.acc, last'.qty)

\* C25, second part: two operations on different orders, or two stock
\* movements on different accessories, give the same rows in either order
EffectsCommute ==
    LET db == OrderRows
    IN /\ \A o \in 1..Len(orders) : \A p \in (o + 1)..Len(orders) :
             \A A \in OrderOps(o), B \in OrderOps(p) :
                ApplyOrderOp(ApplyOrderOp(db, A), B)
                   = ApplyOrderOp(ApplyOrderOp(db, B), A)
       /\ \A a \in DOMAIN accessories : \A b \in DOMAIN accessories :
             a < b =>
                MoveEffect(MoveEffect(stockHistory, a, 1), b, 1)
                   = MoveEffect(MoveEffect(stockHistory, b, 1), a, 1)

\* C25: operations on one order or accessory leave the others unchanged, and
\* operations on different orders or accessories commute
C25_OtherEntitiesUnchanged ==
    /\ []EffectsCommute
    /\ [][FrameOfStep /\ StepIsEffect]_vars

\* two orders exist, one was just changed and the other has a history of its own
C25_Witness ==
    /\ Len(orders) = 2
    /\ last.op = "update_accessory"
    /\ \E o, p \in 1..Len(orders) :
          /\ o # p
          /\ last.o = o
          /\ orders[o].items[1].accessories[1].notes = "Attached"
          /\ orders[p].items[1].accessories[1].notes # "Attached"
          /\ Len(statusHistory[p]) > 1

====
